---- MODULE Spec2Model ----
(***************************************************************************)
(* Index calculation engine of pokemon-market-indexes-v2: the constituent  *)
(* store, the monthly rebalance and the Laspeyres chain-link of            *)
(* scripts/calculate_index.py, with the one-shot history and               *)
(* initialization scripts that write the same tables.                      *)
(*                                                                         *)
(* Units.  Prices are integers in cents, liquidity scores in 1e-4, weights *)
(* in 1e-8 (the store rounds them to 8 decimals) and index values in 1e-4  *)
(* (the store rounds them to 4 decimals).  Dates are day numbers and a     *)
(* month key is the number of the month that contains the day.             *)
(***************************************************************************)
EXTENDS Integers, Sequences, FiniteSets, TLC

VARIABLES
    today,      \* the calendar day of the machine that runs the scripts
    prices,     \* card_prices_daily: card -> day -> kind of row (0 = no row)
    cons,       \* constituents_monthly: index_code -> month -> set of rows
    ivw,        \* index_values_weekly: index_code -> day -> value (-1 = no row)
    ivd,        \* index_values_daily:  index_code -> day -> value (-1 = no row)
    run,        \* the daily run in progress (calculate_index.main)
    last,       \* what the most recent operation did (observation only)
    budget      \* remaining fetches, runs and faults of the bounded exploration

vars == <<today, prices, cons, ivw, ivd, run, last, budget>>

----------------------------------------------------------------------------
(* Bounds of the exploration *)

DaysPerMonth == 31
MaxFetch == 1
MaxRuns == 2
MaxFaults == 1

\* the days on which the machine is on: three days of one month, then a day of
\* each of the next two months
Dates == <<0, 1, 2, 31, 62>>
Cards == 1..2
Days == {Dates[i] : i \in 1..Len(Dates)}
Month(d) == d \div DaysPerMonth
Months == {Month(d) : d \in Days}

----------------------------------------------------------------------------
(* Program constants *)

BASE_VALUE == 1000000
LIQUIDITY_CAP == 50
VOLUME_CAP == 10
MIN_PRICE == 10
MAX_PRICE == 10000000
LIQUIDITY_THRESHOLD_ENTRY == 4000
MIN_AVG_VOLUME_30D == 150
WEIGHT_SCALE == 100000000
LIQUIDITY_WINDOW_DAYS == 7
LIQUIDITY_FLOOR == 1000
VOLUME_LOOKBACK_DAYS == 30
W_VOL == 5000
W_LIST == 3000
W_CONS == 2000

\* CONDITION_WEIGHTS in tenths: Near Mint .. Damaged
CONDITION_WEIGHTS == <<10, 8, 6, 4, 2>>

IndexCodes == <<"RARE_100", "RARE_500", "RARE_ALL">>
IndexSet == {IndexCodes[i] : i \in 1..Len(IndexCodes)}

\* INDEX_CONFIG[index_code]["size"]; 0 stands for None (unbounded)
INDEX_CONFIG_size(index_code) ==
    CASE index_code = "RARE_100" -> 100
      [] index_code = "RARE_500" -> 500
      [] OTHER -> 0

\* RARE_RARITIES membership of each card of the cards table
RARE_RARITIES == {"Rare", "Holo Rare", "Ultra Rare", "Secret Rare", "Promo"}
CardRarity(c) == "Rare"
CardIsEligible(c) == TRUE

----------------------------------------------------------------------------
(* Arithmetic on exact rationals *)

Min(a, b) == IF a < b THEN a ELSE b

RECURSIVE GCD(_, _)
GCD(a, b) == IF b = 0 THEN a ELSE GCD(b, a % b)

\* <<quotient, remainder>> of a*b divided by c, without forming a*b
RECURSIVE MulDivQR(_, _, _)
MulDivQR(a, b, c) ==
    IF b = 0 THEN <<0, 0>>
    ELSE LET h == MulDivQR(a, b \div 2, c)
             t == 2 * h[2] + (b % 2) * (a % c)
         IN  <<2 * h[1] + (b % 2) * (a \div c) + (t \div c), t % c>>

\* Python round(): the nearest integer of q + r/c, a tie going to the even one
RoundHalfEven(qr, c) ==
    LET q == qr[1]
        r == qr[2]
    IN  IF 2 * r > c THEN q + 1
        ELSE IF 2 * r < c THEN q
        ELSE IF q % 2 = 0 THEN q ELSE q + 1

\* round(a * b / c)
RoundMulDiv(a, b, c) == RoundHalfEven(MulDivQR(a, b, c), c)

\* the elements of a set of integers in ascending order
RECURSIVE SetToSeq(_)
SetToSeq(S) ==
    IF S = {} THEN <<>>
    ELSE LET m == CHOOSE x \in S : \A y \in S : x <= y
         IN  <<m>> \o SetToSeq(S \ {m})

RECURSIVE SumSeq(_)
SumSeq(s) == IF s = <<>> THEN 0 ELSE Head(s) + SumSeq(Tail(s))

SeqToSet(s) == {s[i] : i \in 1..Len(s)}

----------------------------------------------------------------------------
(* card_prices_daily rows.  A row of the table is one of a few kinds; kind 0
   is "no row for this card on this day". *)

\* listings and volumes are per condition: <<nm, lp, mp, hp, dmg>>
\* 1, 2: traded and listed at two prices; 3: listed, never sold; 4: thinly sold,
\* not listed; 5: traded and listed below the minimum price
PriceRows == <<
    [nm_price |-> 100, market_price |-> 100,
     listings |-> <<50, 0, 0, 0, 0>>, volumes |-> <<20, 0, 0, 0, 0>>],
    [nm_price |-> 200, market_price |-> 200,
     listings |-> <<50, 0, 0, 0, 0>>, volumes |-> <<20, 0, 0, 0, 0>>],
    [nm_price |-> 100, market_price |-> 100,
     listings |-> <<50, 0, 0, 0, 0>>, volumes |-> <<0, 0, 0, 0, 0>>],
    [nm_price |-> 100, market_price |-> 100,
     listings |-> <<0, 0, 0, 0, 0>>, volumes |-> <<2, 0, 0, 0, 0>>],
    [nm_price |-> 5, market_price |-> 5,
     listings |-> <<50, 0, 0, 0, 0>>, volumes |-> <<20, 0, 0, 0, 0>>] >>
\* the kinds of row the price fetcher of the daily machine writes
NKinds == 2
Kinds == 0..NKinds
\* every kind of row, for the selection functions
SelectKinds == 1..Len(PriceRows)

HasRow(pr, c, d) == d \in Days /\ pr[c][d] # 0
Row(pr, c, d) == PriceRows[pr[c][d]]

\* row.get("nm_price") or row.get("market_price")
RefPrice(row) == IF row.nm_price # 0 THEN row.nm_price ELSE row.market_price

\* get_latest_price_date: the most recent day with a price row, else today
get_latest_price_date(pr, tday) ==
    LET ds == {d \in Days : \E c \in DOMAIN pr : pr[c][d] # 0}
    IN  IF ds = {} THEN tday ELSE CHOOSE d \in ds : \A e \in ds : e <= d

\* get_current_month / get_previous_month: from the machine's date
get_current_month(tday) == Month(tday)
get_previous_month(tday) == Month(tday) - 1

----------------------------------------------------------------------------
(* Liquidity (scripts/utils.py) *)

\* sum over the five conditions of count * CONDITION_WEIGHTS, in tenths
Weighted(t) ==
    SumSeq([i \in 1..5 |-> t[i] * CONDITION_WEIGHTS[i]])

\* the listings term taken without the cap of 1.0
ListingsTerm_Uncapped(listings) ==
    (W_LIST \div (10 * LIQUIDITY_CAP)) * Weighted(listings)

\* min(weighted_listings / LIQUIDITY_CAP, 1.0) * W_LIST, an exact integer
ListingsTerm(listings) ==
    (W_LIST \div (10 * LIQUIDITY_CAP)) * Min(Weighted(listings), 10 * LIQUIDITY_CAP)

\* the score with the consistency taken over the seven days of the window
\* instead of the days that have a row
combined_liquidity_score_FullWindow(data, listings, failed) ==
    LET days_in_period == Len(data)
        wv == [i \in 1..Len(data) |-> Weighted(data[i])]
        volume_term == (W_VOL \div (10 * VOLUME_CAP))
                         * Min(SumSeq(wv), 10 * VOLUME_CAP * days_in_period)
        days_with_volume == Cardinality({i \in 1..Len(data) : wv[i] > 0})
        den == days_in_period * LIQUIDITY_WINDOW_DAYS
        num == (volume_term + ListingsTerm(listings) * days_in_period) * LIQUIDITY_WINDOW_DAYS
                 + W_CONS * days_with_volume * days_in_period
    IN  IF ~failed /\ days_in_period >= 1
        THEN <<RoundHalfEven(<<num \div den, num % den>>, den), "combined">>
        ELSE <<ListingsTerm(listings), "listings_only">>

\* The scoring of calculate_liquidity_smart from the rows its query returned:
\* data = the volumes <<nm, lp, mp, hp, dmg>> of each row of the window.
\* failed = the volume query raised, which the function swallows and answers
\* with the listings fallback.  The result is <<score, method>>.
combined_liquidity_score(data, listings, failed) ==
    LET days_in_period == Len(data)
        wv == [i \in 1..Len(data) |-> Weighted(data[i])]
        total_weighted_volume == SumSeq(wv)
        days_with_volume == Cardinality({i \in 1..Len(data) : wv[i] > 0})
        volume_term == (W_VOL \div (10 * VOLUME_CAP))
                         * Min(total_weighted_volume, 10 * VOLUME_CAP * days_in_period)
        num == volume_term + ListingsTerm(listings) * days_in_period
                 + W_CONS * days_with_volume
    IN  IF ~failed /\ days_in_period >= 1
        THEN <<RoundHalfEven(<<num \div days_in_period, num % days_in_period>>,
                             days_in_period), "combined">>
        ELSE <<ListingsTerm(listings), "listings_only">>

\* calculate_liquidity_smart: the rows of the card on the seven days that end
\* on current_date, scored
calculate_liquidity_smart(pr, card_id, current_date, listings, failed) ==
    LET dates == {d \in Days : d <= current_date
                                /\ d > current_date - LIQUIDITY_WINDOW_DAYS}
        ds == SetToSeq({d \in dates : pr[card_id][d] # 0})
    IN  combined_liquidity_score([i \in 1..Len(ds) |-> Row(pr, card_id, ds[i]).volumes],
                                 listings, failed)

\* get_avg_volume_30d: avg_volume of get_volume_stats_30d, in 1/(10*AVG_DIVISOR);
\* a query that raises yields 0
get_avg_volume_30d(pr, card_id, current_date, failed) ==
    LET data == {d \in Days : d >= current_date - VOLUME_LOOKBACK_DAYS /\ d <= current_date
                                /\ pr[card_id][d] # 0}
        ds == SetToSeq(data)
        wv == [i \in 1..Len(ds) |-> Weighted(Row(pr, card_id, ds[i]).volumes)]
    IN  IF failed \/ data = {} THEN 0 ELSE SumSeq(wv)

----------------------------------------------------------------------------
(* Data loading, filtering and selection (scripts/calculate_index.py) *)

\* get_cards_with_prices: the eligible cards that have a row with an NM price
\* on price_date, in the order of the cards table
get_cards_with_prices(pr, price_date) ==
    LET ok(c) == /\ CardIsEligible(c)
                 /\ HasRow(pr, c, price_date)
                 /\ Row(pr, c, price_date).nm_price # 0
                 /\ RefPrice(Row(pr, c, price_date)) > 0
        ids == SelectSeq(SetToSeq(DOMAIN pr), ok)
    IN  [i \in 1..Len(ids) |->
            [card_id |-> ids[i],
             rarity |-> CardRarity(ids[i]),
             price |-> RefPrice(Row(pr, ids[i], price_date)),
             listings |-> Row(pr, ids[i], price_date).listings,
             liquidity_score |-> 0,
             liquidity_method |-> "none",
             ranking_score |-> 0,
             weight |-> <<0, 1>>]]

filter_rare_cards(cards) ==
    LET keep(c) == c.rarity \in RARE_RARITIES IN SelectSeq(cards, keep)

filter_outliers(cards) ==
    LET keep(c) == MIN_PRICE <= c.price /\ c.price <= MAX_PRICE
    IN  SelectSeq(cards, keep)

\* price * liquidity_score
calculate_ranking_score(card) == card.price * card.liquidity_score

\* list.sort(key=ranking_score, reverse=True): stable, equal keys keep their order
RECURSIVE SortByRankingDesc(_)
SortByRankingDesc(s) ==
    IF s = <<>> THEN <<>>
    ELSE LET init == SortByRankingDesc(SubSeq(s, 1, Len(s) - 1))
             x == s[Len(s)]
             k == Cardinality({i \in 1..Len(init) :
                                 init[i].ranking_score >= x.ranking_score})
         IN  SubSeq(init, 1, k) \o <<x>> \o SubSeq(init, k + 1, Len(init))

\* select_constituents with client and price_date given.  liqFail / volFail are
\* the cards whose liquidity / 30-day volume query raised.
select_constituents(cards, index_code, pr, price_date, liqFail, volFail) ==
    LET scored == [i \in 1..Len(cards) |->
            LET sm == calculate_liquidity_smart(pr, cards[i].card_id, price_date,
                          cards[i].listings, cards[i].card_id \in liqFail)
                c1 == [cards[i] EXCEPT !.liquidity_score = sm[1],
                                       !.liquidity_method = sm[2]]
            IN  [c1 EXCEPT !.ranking_score = calculate_ranking_score(c1)]]
        aboveThreshold(c) == c.liquidity_score >= LIQUIDITY_THRESHOLD_ENTRY
        eligible == SelectSeq(scored, aboveThreshold)
        methodD(c) ==
            LET avg_vol == get_avg_volume_30d(pr, c.card_id, price_date,
                                              c.card_id \in volFail)
            IN  IF avg_vol > 0 /\ avg_vol < MIN_AVG_VOLUME_30D
                THEN c.liquidity_method = "listings_fallback"
                ELSE TRUE
        eligible_with_volume == SelectSeq(eligible, methodD)
        sorted == SortByRankingDesc(eligible_with_volume)
        size == INDEX_CONFIG_size(index_code)
    IN  IF size # 0 THEN SubSeq(sorted, 1, Min(size, Len(sorted))) ELSE sorted

\* the total taken over constituents[1:]
calculate_weights_SkipFirst(constituents) ==
    LET total_price == SumSeq([i \in 1..Len(constituents) |->
                                  IF i = 1 THEN 0 ELSE constituents[i].price])
    IN  IF total_price = 0
        THEN [i \in 1..Len(constituents) |->
                [constituents[i] EXCEPT !.weight = <<1, Len(constituents)>>]]
        ELSE [i \in 1..Len(constituents) |->
                [constituents[i] EXCEPT !.weight = <<constituents[i].price, total_price>>]]

\* calculate_weights: weight_i = price_i / sum(prices), kept as <<num, den>>
calculate_weights(constituents) ==
    LET total_price == SumSeq([i \in 1..Len(constituents) |-> constituents[i].price])
    IN  IF total_price = 0
        THEN [i \in 1..Len(constituents) |->
                [constituents[i] EXCEPT !.weight = <<1, Len(constituents)>>]]
        ELSE [i \in 1..Len(constituents) |->
                [constituents[i] EXCEPT !.weight = <<constituents[i].price, total_price>>]]

\* calculate_weights of scripts_oneshot/initialize_index.py:
\* adjusted_value = price * (liquidity_score or 0.1), weight = adjusted / total
initialize_calculate_weights(constituents) ==
    LET adjusted == [i \in 1..Len(constituents) |->
            LET liquidity == IF constituents[i].liquidity_score # 0
                             THEN constituents[i].liquidity_score
                             ELSE LIQUIDITY_FLOOR
            IN  constituents[i].price * liquidity]
        total_adjusted == SumSeq(adjusted)
    IN  IF total_adjusted = 0
        THEN [i \in 1..Len(constituents) |->
                [constituents[i] EXCEPT !.weight = <<1, Len(constituents)>>]]
        ELSE [i \in 1..Len(constituents) |->
                [constituents[i] EXCEPT !.weight = <<adjusted[i], total_adjusted>>]]

\* the weights of do_rebalancing (scripts_oneshot/calculate_index_history.py):
\* weight_i = price_i / total_price if total_price > 0 else 0
history_calculate_weights(constituents) ==
    LET total_price == SumSeq([i \in 1..Len(constituents) |-> constituents[i].price])
    IN  [i \in 1..Len(constituents) |->
            [constituents[i] EXCEPT !.weight =
                IF total_price > 0 THEN <<constituents[i].price, total_price>>
                ELSE <<0, 1>>]]

----------------------------------------------------------------------------
(* Persistence of constituents (scripts/calculate_index.py, scripts/utils.py) *)

ItemIds(rows) == {r.item_id : r \in rows}

\* the rows save_constituents builds: rank = position, values rounded
ConstituentRows(constituents) ==
    [i \in 1..Len(constituents) |->
        LET c == constituents[i]
            rs == c.ranking_score
        IN  [item_id |-> c.card_id,
             composite_price |-> c.price,
             liquidity_score |-> c.liquidity_score,
             ranking_score |-> RoundHalfEven(<<rs \div 100, rs % 100>>, 100),
             rank |-> i,
             weight |-> RoundMulDiv(c.weight[1], WEIGHT_SCALE, c.weight[2])]]

\* batch_upsert on constituents_monthly with on_conflict = index_code,month,item_id.
\* A batch is written whole; when that raises, its rows are retried one by one
\* and each may raise.  okRows = the positions of the rows that got written.
batch_upsert(table, rows, okRows) ==
    LET written == {rows[i] : i \in okRows}
    IN  [table |-> {r \in table : r.item_id \notin ItemIds(written)} \cup written,
         saved |-> Cardinality(okRows),
         failed |-> Len(rows) - Cardinality(okRows)]

\* delete-then-write: the rows of the month are deleted, then the new ones inserted
save_constituents_DeleteFirst(table, constituents, okRows, removed) ==
    IF constituents = <<>> THEN [table |-> table, saved |-> 0]
    ELSE LET result == batch_upsert({}, ConstituentRows(constituents), okRows)
         IN  [table |-> result.table, saved |-> result.saved]

\* an empty list replaces the stored rows of the month like any other list
save_constituents_ClearOnEmpty(table, constituents, okRows, removed) ==
    IF constituents = <<>> THEN [table |-> {}, saved |-> 0]
    ELSE LET result == batch_upsert(table, ConstituentRows(constituents), okRows)
         IN  IF result.saved = 0 /\ result.failed > 0
             THEN [table |-> result.table, saved |-> 0]
             ELSE [table |-> {r \in result.table : r.item_id \notin removed},
                   saved |-> result.saved]

\* save_constituents.  removed = the stale item ids whose delete was executed
\* before the clean-up raised (all of them when nothing raises).
save_constituents(table, constituents, okRows, removed) ==
    IF constituents = <<>> THEN [table |-> table, saved |-> 0]
    ELSE LET result == batch_upsert(table, ConstituentRows(constituents), okRows)
         IN  IF result.saved = 0 /\ result.failed > 0
             THEN [table |-> result.table, saved |-> 0]
             ELSE [table |-> {r \in result.table : r.item_id \notin removed},
                   saved |-> result.saved]

----------------------------------------------------------------------------
(* Laspeyres chain-linking (scripts/calculate_index.py) *)

HasValue(iv, index_code) == \E d \in Days : iv[index_code][d] # -1
LatestValueDate(iv, index_code) ==
    CHOOSE d \in Days : /\ iv[index_code][d] # -1
                        /\ \A e \in Days : iv[index_code][e] # -1 => e <= d

SnapshotOf(cn, index_code, month) ==
    IF month \in Months THEN cn[index_code][month] ELSE {}

\* a zero-valued default record in place of None when no value row exists
get_previous_index_data_Default(iv, cn, index_code, tday) ==
    LET cur == SnapshotOf(cn, index_code, get_current_month(tday))
        constituents == IF cur # {} THEN cur
                        ELSE SnapshotOf(cn, index_code, get_previous_month(tday))
    IN  IF ~HasValue(iv, index_code)
        THEN [exists |-> TRUE, value |-> 0, date |-> -1, constituents |-> constituents]
        ELSE LET d == LatestValueDate(iv, index_code)
             IN  [exists |-> TRUE, value |-> iv[index_code][d], date |-> d,
                  constituents |-> constituents]

\* get_previous_index_data: the latest index value and the constituents of the
\* machine's current month, or of the month before when that one has none
get_previous_index_data(iv, cn, index_code, tday) ==
    IF ~HasValue(iv, index_code)
    THEN [exists |-> FALSE, value |-> 0, date |-> -1, constituents |-> {}]
    ELSE LET d == LatestValueDate(iv, index_code)
             cur == SnapshotOf(cn, index_code, get_current_month(tday))
         IN  [exists |-> TRUE,
              value |-> iv[index_code][d],
              date |-> d,
              constituents |-> IF cur # {} THEN cur
                               ELSE SnapshotOf(cn, index_code, get_previous_month(tday))]

\* get_prices_for_date: the cards of card_ids that have a price on price_date
PricedCards(pr, card_ids, price_date) ==
    {c \in card_ids : HasRow(pr, c, price_date) /\ RefPrice(Row(pr, c, price_date)) # 0}
\* a card without a price row is given the price 0
get_prices_for_date_ZeroForMissing(pr, card_ids, price_date) ==
    [c \in card_ids |-> IF c \in PricedCards(pr, card_ids, price_date)
                        THEN RefPrice(Row(pr, c, price_date)) ELSE 0]

\* a card without a price on price_date is given its latest earlier price
get_prices_for_date_CarryForward(pr, card_ids, price_date) ==
    LET seen(c) == {d \in Days : d <= price_date /\ HasRow(pr, c, d)
                                   /\ RefPrice(Row(pr, c, d)) # 0}
        latest(c) == CHOOSE d \in seen(c) : \A e \in seen(c) : e <= d
    IN  [c \in {x \in card_ids : seen(x) # {}} |-> RefPrice(Row(pr, c, latest(c)))]

get_prices_for_date(pr, card_ids, price_date) ==
    [c \in PricedCards(pr, card_ids, price_date) |-> RefPrice(Row(pr, c, price_date))]

RECURSIVE GCDSet(_)
GCDSet(S) == IF S = {} THEN 0
             ELSE LET x == CHOOSE y \in S : TRUE IN GCD(x, GCDSet(S \ {x}))

\* sum over the rows of weight * price[item] / g; price maps item ids to prices
RECURSIVE WeightedSum(_, _, _)
WeightedSum(rows, price, g) ==
    IF rows = {} THEN 0
    ELSE LET r == CHOOSE x \in rows : TRUE
         IN  r.weight * (price[r.item_id] \div g) + WeightedSum(rows \ {r}, price, g)

\* The ratio numerator / denominator of the matched rows.  Both sums are divided
\* by the common factor of the prices, which leaves the ratio as it is.
LaspeyresSums(matched, cur, prev) ==
    LET g == GCDSet({cur[r.item_id] : r \in matched} \cup {prev[r.item_id] : r \in matched})
        f == IF g = 0 THEN 1 ELSE g
    IN  [numerator |-> WeightedSum(matched, cur, f),
         denominator |-> WeightedSum(matched, prev, f)]

\* round(prev_value * numerator / denominator, 4)
ChainLink(prev_value, numerator, denominator) ==
    RoundMulDiv(prev_value, numerator, denominator)

\* the threshold with exactly half counted as insufficient
BelowHalf_Inclusive(matched_count, total) == 2 * matched_count <= total

\* matched_count < len(prev_constituents) * 0.5
BelowHalf(matched_count, total) == 2 * matched_count < total

\* calculate_index_laspeyres
calculate_index_laspeyres(iv, cn, pr, index_code, current_date, tday) ==
    LET prev_data == get_previous_index_data(iv, cn, index_code, tday)
        prev_constituents == prev_data.constituents
        current_prices == get_prices_for_date(pr, ItemIds(prev_constituents), current_date)
        matched == {r \in prev_constituents :
                       r.item_id \in DOMAIN current_prices /\ r.composite_price > 0}
        prev_prices == [id \in ItemIds(matched) |->
                           (CHOOSE r \in matched : r.item_id = id).composite_price]
        sums == LaspeyresSums(matched, current_prices, prev_prices)
        matched_count == Cardinality(matched)
        total == Cardinality(prev_constituents)
        info == [prev_exists |-> prev_data.exists, prev_value |-> prev_data.value,
                 prev_date |-> prev_data.date, prev_constituents |-> prev_constituents,
                 matched |-> matched_count, total |-> total,
                 numerator |-> sums.numerator, denominator |-> sums.denominator]
    IN  IF ~prev_data.exists \/ prev_constituents = {}
        THEN [value |-> BASE_VALUE, method |-> "base", info |-> info]
        ELSE IF prev_data.date = current_date
        THEN [value |-> prev_data.value, method |-> "same_date", info |-> info]
        ELSE IF sums.denominator = 0 \/ BelowHalf(matched_count, total)
        THEN IF matched_count > 0
             THEN [value |-> IF sums.denominator > 0
                             THEN ChainLink(prev_data.value, sums.numerator,
                                            sums.denominator)
                             ELSE prev_data.value,
                   method |-> "laspeyres_partial", info |-> info]
             ELSE [value |-> prev_data.value, method |-> "fallback", info |-> info]
        ELSE [value |-> ChainLink(prev_data.value, sums.numerator, sums.denominator),
              method |-> "laspeyres", info |-> info]

\* save_index_value: upsert on (index_code, week_date); a raise is swallowed
save_index_value(iv, index_code, value_date, index_value, ok) ==
    IF ok THEN [iv EXCEPT ![index_code][value_date] = index_value] ELSE iv

----------------------------------------------------------------------------
(* Laspeyres step of the history script (scripts_oneshot/calculate_index_history.py) *)

\* get_previous_index_value: the most recent value strictly before before_date
get_previous_index_value(iv, index_code, before_date) ==
    LET ds == {d \in Days : d < before_date /\ iv[index_code][d] # -1}
    IN  IF ds = {} THEN [exists |-> FALSE, value |-> 0, date |-> -1]
        ELSE LET d == CHOOSE x \in ds : \A e \in ds : e <= x
             IN  [exists |-> TRUE, value |-> iv[index_code][d], date |-> d]

\* denominator > 0 and matched_count >= len(constituents) * 0.5
EnoughData(denominator, matched_count, total) ==
    denominator > 0 /\ 2 * matched_count >= total

\* calculate_laspeyres_value: the previous prices are read from the price table
calculate_laspeyres_value(pr, constituents, prev_value, prev_date, current_date) ==
    LET card_ids == ItemIds(constituents)
        current_prices == get_prices_for_date(pr, card_ids, current_date)
        prev_prices == get_prices_for_date(pr, card_ids, prev_date)
        matched == {r \in constituents :
                       /\ r.item_id \in DOMAIN current_prices
                       /\ r.item_id \in DOMAIN prev_prices
                       /\ prev_prices[r.item_id] > 0}
        sums == LaspeyresSums(matched, current_prices, prev_prices)
        matched_count == Cardinality(matched)
        total == Cardinality(constituents)
        info == [prev_exists |-> TRUE, prev_value |-> prev_value,
                 prev_date |-> prev_date, prev_constituents |-> constituents,
                 matched |-> matched_count, total |-> total,
                 numerator |-> sums.numerator, denominator |-> sums.denominator]
    IN  IF constituents = {}
        THEN [value |-> prev_value, method |-> "no_constituents", info |-> info]
        ELSE IF EnoughData(sums.denominator, matched_count, total)
        THEN [value |-> ChainLink(prev_value, sums.numerator, sums.denominator),
              method |-> "laspeyres", info |-> info]
        ELSE [value |-> prev_value, method |-> "insufficient_data", info |-> info]

----------------------------------------------------------------------------
(* Selection of the history script (scripts_oneshot/calculate_index_history.py) *)

\* do_rebalancing up to the selection: rarity, outliers, liquidity, threshold,
\* sort, top N.  all_cards = get_cards_with_prices(client, price_date).
do_rebalancing_select(all_cards, index_code, pr, price_date) ==
    LET cards == filter_outliers(filter_rare_cards(all_cards))
        scored == [i \in 1..Len(cards) |->
            LET sm == calculate_liquidity_smart(pr, cards[i].card_id, price_date,
                          cards[i].listings, FALSE)
                c1 == [cards[i] EXCEPT !.liquidity_score = sm[1],
                                       !.liquidity_method = sm[2]]
            IN  [c1 EXCEPT !.ranking_score = c1.price * c1.liquidity_score]]
        aboveThreshold(c) == c.liquidity_score >= LIQUIDITY_THRESHOLD_ENTRY
        eligible == SortByRankingDesc(SelectSeq(scored, aboveThreshold))
        size == INDEX_CONFIG_size(index_code)
    IN  IF size # 0 THEN SubSeq(eligible, 1, Min(size, Len(eligible))) ELSE eligible

----------------------------------------------------------------------------
(* Selection of the initialization script (scripts_oneshot/initialize_index.py) *)

\* INCEPTION_DATE and the first weekly data point, 56 days before it
INCEPTION_DATE == Dates[4]
WEEKLY_DATA_START == INCEPTION_DATE - 56
WEEKLY_DATA_POINTS == 9
WEEKLY_MIN_DAYS_WITH_VOLUME == 3

\* config.get("maturity_days", 30): 30 for every index of INDEX_CONFIG and the
\* default for a code that is not in it
INDEX_CONFIG_maturity_days(index_code) == 30

\* release_date <= cutoff_date
ReleasedBy_Strict(release_date, cutoff_date) == release_date < cutoff_date
ReleasedBy(release_date, cutoff_date) == release_date <= cutoff_date

\* filter_immature_cards.  release_date is <<>> for None, else <<day>>; a card
\* without a release date is kept.
filter_immature_cards(cards, index_code, reference_date) ==
    LET maturity_days == INDEX_CONFIG_maturity_days(index_code)
        cutoff_date == reference_date - maturity_days
        keep(card) == \/ card.release_date = <<>>
                      \/ ReleasedBy(card.release_date[1], cutoff_date)
    IN  IF maturity_days <= 0 THEN cards ELSE SelectSeq(cards, keep)

\* the statistics batch_get_volume_stats keeps for one card, from the volumes
\* <<nm, lp, mp, hp, dmg>> of its rows in the period; total_volume in tenths
volume_stats_of(data, min_days, avg_divisor) ==
    LET volumes == [i \in 1..Len(data) |-> Weighted(data[i])]
        days_with_volume == Cardinality({i \in 1..Len(volumes) : volumes[i] > 0})
    IN  [total_volume |-> SumSeq(volumes),
         avg_divisor |-> avg_divisor,
         days_with_volume |-> days_with_volume,
         is_liquid |-> days_with_volume >= min_days,
         n_days |-> IF Len(volumes) > 0 THEN Len(volumes) ELSE avg_divisor]

\* batch_get_volume_stats: card_id -> statistics over start_date..end_date
batch_get_volume_stats(pr, card_ids, start_date, end_date, min_days, avg_divisor) ==
    [c \in card_ids |->
        LET ds == SetToSeq({d \in Days : d >= start_date /\ d <= end_date
                                          /\ pr[c][d] # 0})
        IN  volume_stats_of([i \in 1..Len(ds) |-> Row(pr, c, ds[i]).volumes],
                            min_days, avg_divisor)]

\* min(weighted_listings / LIQUIDITY_CAP, 1.0) in 1e-4
ListingsScore(listings) ==
    (10000 \div (10 * LIQUIDITY_CAP)) * Min(Weighted(listings), 10 * LIQUIDITY_CAP)

\* calculate_liquidity_batch for one card: <<score, method>>.
\* avg_volume = total_volume / avg_divisor, consistency = days_with_volume / n_days
liquidity_batch_score(listings, vol_stats) ==
    LET cap == 10 * VOLUME_CAP * vol_stats.avg_divisor
        den == cap * vol_stats.n_days
        num == W_VOL * Min(vol_stats.total_volume, cap) * vol_stats.n_days
                 + ListingsTerm(listings) * den
                 + W_CONS * vol_stats.days_with_volume * cap
    IN  IF vol_stats.total_volume > 0 \/ vol_stats.days_with_volume > 0
        THEN <<RoundHalfEven(<<num \div den, num % den>>, den), "combined">>
        ELSE <<ListingsScore(listings), "listings_only">>

\* calculate_liquidity_batch: every card scored from the fetched statistics
calculate_liquidity_batch(cards, volume_stats) ==
    [i \in 1..Len(cards) |->
        LET sm == liquidity_batch_score(cards[i].listings, volume_stats[cards[i].card_id])
        IN  [cards[i] EXCEPT !.liquidity_score = sm[1], !.liquidity_method = sm[2]]]

\* select_constituents of the initialization script, client and price_date given
initialize_select_constituents(cards, index_code, pr, price_date) ==
    LET card_ids == {cards[i].card_id : i \in 1..Len(cards)}
        volume_stats == batch_get_volume_stats(pr, card_ids, WEEKLY_DATA_START, price_date,
                            WEEKLY_MIN_DAYS_WITH_VOLUME, WEEKLY_DATA_POINTS)
        batch == calculate_liquidity_batch(cards, volume_stats)
        scored == [i \in 1..Len(batch) |->
                      [batch[i] EXCEPT !.ranking_score = calculate_ranking_score(batch[i])]]
        methodD(card) ==
            LET vol_stats == volume_stats[card.card_id]
                no_volume_data == vol_stats.days_with_volume = 0
                has_sufficient_volume ==
                    vol_stats.total_volume * VOLUME_LOOKBACK_DAYS
                        >= MIN_AVG_VOLUME_30D * vol_stats.avg_divisor
                has_regular_trading == vol_stats.is_liquid
            IN  IF no_volume_data
                THEN card.liquidity_method = "listings_only"
                ELSE has_sufficient_volume /\ has_regular_trading
        eligible == SortByRankingDesc(SelectSeq(scored, methodD))
        size == INDEX_CONFIG_size(index_code)
    IN  IF size # 0 THEN SubSeq(eligible, 1, Min(size, Len(eligible))) ELSE eligible

----------------------------------------------------------------------------
(* State *)

NoCalc == [value |-> -1, method |-> "none",
           info |-> [prev_exists |-> FALSE, prev_value |-> 0, prev_date |-> -1,
                     prev_constituents |-> {}, matched |-> 0, total |-> 0,
                     numerator |-> 0, denominator |-> 0]]

NoLast == [op |-> "none", index_code |-> "none", month |-> -1, price_date |-> -1,
           force |-> FALSE, had_snapshot |-> FALSE, rebalanced |-> FALSE,
           before |-> {}, target |-> {}, saved |-> 0, failed |-> 0,
           stale_left |-> {}, read_faults |-> FALSE, aborted |-> FALSE,
           computed |-> FALSE, calc |-> NoCalc, value_saved |-> FALSE,
           iv_before |-> [d \in Days |-> -1],
           input |-> <<>>, output |-> <<>>]

Idle == [pc |-> "idle", i |-> 0, price_date |-> -1, current_month |-> -1,
         need_rebalance |-> FALSE, force |-> FALSE]

\* The price history holds the rows of the first day when the scripts first run.
Init ==
    /\ today = Dates[1]
    /\ prices = [c \in Cards |-> [d \in Days |-> IF d = Dates[1] THEN 1 ELSE 0]]
    /\ cons = [x \in IndexSet |-> [m \in Months |-> {}]]
    /\ ivw = [x \in IndexSet |-> [d \in Days |-> -1]]
    /\ ivd = [x \in IndexSet |-> [d \in Days |-> -1]]
    /\ run = Idle
    /\ last = NoLast
    /\ budget = [fetch |-> MaxFetch, runs |-> MaxRuns, faults |-> MaxFaults]

----------------------------------------------------------------------------
(* Environment *)

\* the calendar moves on by one day
AdvanceDay ==
    /\ run.pc = "idle"
    /\ \E d \in Days : d > today
    /\ today' = CHOOSE d \in Days : d > today /\ \A e \in Days : e > today => d <= e
    /\ UNCHANGED <<prices, cons, ivw, ivd, run, last, budget>>

\* the price fetcher writes the rows of the day (fetch_prices.py, upstream)
FetchPrices ==
    /\ run.pc = "idle"
    /\ budget.fetch > 0
    /\ \A c \in Cards : prices[c][today] = 0
    /\ \E k \in [Cards -> Kinds] :
          /\ \E c \in Cards : k[c] # 0
          /\ prices' = [c \in Cards |-> [prices[c] EXCEPT ![today] = k[c]]]
    /\ budget' = [budget EXCEPT !.fetch = @ - 1]
    /\ UNCHANGED <<today, cons, ivw, ivd, run, last>>

----------------------------------------------------------------------------
(* The daily run: calculate_index.main *)

\* rare_cards of main: loaded, rarity-filtered, outlier-filtered
RareCards(pr, price_date) ==
    filter_outliers(filter_rare_cards(get_cards_with_prices(pr, price_date)))

\* response.count == 0 of the month check: no row of any index for the month
NoConstituentsThisMonth(cn, month) ==
    \A x \in IndexSet : SnapshotOf(cn, x, month) = {}

\* main up to the loop over the index codes; force = the --rebalance flag
RunStart(force) ==
    /\ run.pc = "idle"
    /\ budget.runs > 0
    /\ budget' = [budget EXCEPT !.runs = @ - 1]
    /\ LET price_date == get_latest_price_date(prices, today)
           current_month == get_current_month(today)
           need_rebalance == force \/ NoConstituentsThisMonth(cons, current_month)
       IN  run' = IF RareCards(prices, price_date) = <<>> THEN Idle
                  ELSE [pc |-> "loop", i |-> 1, price_date |-> price_date,
                        current_month |-> current_month,
                        need_rebalance |-> need_rebalance, force |-> force]
    /\ UNCHANGED <<today, prices, cons, ivw, ivd, last>>

NextIndex == IF run.i = Len(IndexCodes) THEN Idle ELSE [run EXCEPT !.i = @ + 1]

Cost(b) == IF b THEN 1 ELSE 0

\* The writes of one rebalancing iteration, once the selection is made and the
\* faults are chosen: save_constituents, calculate_index_laspeyres on the store
\* as saved, save_index_value.
RebalanceWrites(index_code, month, before, constituents, rows, readFault, okRows, removed, stale, abort, value_ok, cost) ==
    LET n == Len(constituents)
        res == save_constituents(before, constituents, okRows, removed)
        computed == n > 0 /\ ~abort
    IN  /\ budget' = [budget EXCEPT !.faults = @ - cost]
        /\ cons' = [cons EXCEPT ![index_code][month] = res.table]
        /\ run' = IF abort THEN Idle ELSE NextIndex
        /\ LET calc == IF computed
                       THEN calculate_index_laspeyres(ivw, cons', prices, index_code,
                                                      run.price_date, today)
                       ELSE NoCalc
           IN  /\ ivw' = IF computed
                         THEN save_index_value(ivw, index_code, run.price_date,
                                               calc.value, value_ok)
                         ELSE ivw
               /\ last' = [op |-> "index", index_code |-> index_code,
                           month |-> month, price_date |-> run.price_date,
                           force |-> run.force, had_snapshot |-> before # {},
                           rebalanced |-> TRUE, before |-> before,
                           target |-> SeqToSet(rows),
                           saved |-> res.saved,
                           failed |-> n - Cardinality(okRows),
                           stale_left |-> stale \ removed,
                           read_faults |-> readFault,
                           aborted |-> abort, computed |-> computed,
                           calc |-> calc,
                           value_saved |-> computed /\ value_ok,
                           iv_before |-> ivw[index_code],
                           input |-> <<>>, output |-> <<>>]

\* The faults of the writes of one rebalancing iteration:
\*   okRows    positions of the rows batch_upsert got written
\*   removed   stale ids deleted before the clean-up raised (swallowed)
\*   abort     a query of calculate_index_laspeyres raised (the run ends)
\*   value_ok  the upsert of the index value did not raise (swallowed)
RebalanceFaults(index_code, month, before, constituents, readFault, cost0) ==
    LET n == Len(constituents)
        all == 1..n
        ids == {constituents[j].card_id : j \in all}
    IN  \E okRows \in SUBSET all :
        /\ cost0 + Cost(okRows # all) <= budget.faults
        /\ LET no_cleanup == n = 0 \/ (okRows = {} /\ okRows # all)
               stale == IF no_cleanup THEN {} ELSE ItemIds(before) \ ids
           IN  \E removed \in SUBSET stale, abort \in BOOLEAN, value_ok \in BOOLEAN :
               LET cost == cost0 + Cost(okRows # all) + Cost(abort)
                             + Cost(~value_ok) + Cost(removed # stale)
               IN  /\ cost <= budget.faults
                   /\ n = 0 => ~abort /\ value_ok
                   /\ abort => value_ok
                   /\ RebalanceWrites(index_code, month, before, constituents,
                                      ConstituentRows(constituents), readFault,
                                      okRows, removed, stale, abort, value_ok, cost)

\* One iteration of the loop with rebalancing: select, weigh, save, compute the
\* value, save it.  The queries of the liquidity helpers are taken to answer.
RebalanceIndex ==
    /\ run.pc = "loop"
    /\ run.need_rebalance
    /\ LET index_code == IndexCodes[run.i]
       IN  RebalanceFaults(index_code, run.current_month,
               cons[index_code][run.current_month],
               calculate_weights(
                   select_constituents(RareCards(prices, run.price_date), index_code,
                                       prices, run.price_date, {}, {})),
               FALSE, 0)
    /\ UNCHANGED <<today, prices, ivd>>

\* One iteration of the loop without rebalancing: load the stored snapshot,
\* compute the value, save it.
LoadIndex ==
    /\ run.pc = "loop"
    /\ ~run.need_rebalance
    /\ LET index_code == IndexCodes[run.i]
           month == run.current_month
           before == cons[index_code][month]
           calc == calculate_index_laspeyres(ivw, cons, prices, index_code,
                                             run.price_date, today)
       IN  \E abort \in BOOLEAN, value_ok \in BOOLEAN :
           LET cost == Cost(abort) + Cost(~value_ok)
               computed == before # {} /\ ~abort
           IN  /\ cost <= budget.faults
               /\ abort => value_ok
               /\ before = {} => value_ok
               /\ budget' = [budget EXCEPT !.faults = @ - cost]
               /\ ivw' = IF computed
                         THEN save_index_value(ivw, index_code, run.price_date,
                                               calc.value, value_ok)
                         ELSE ivw
               /\ run' = IF abort THEN Idle ELSE NextIndex
               /\ last' = [NoLast EXCEPT !.op = "index", !.index_code = index_code,
                               !.month = month, !.price_date = run.price_date,
                               !.force = run.force, !.had_snapshot = before # {},
                               !.before = before, !.aborted = abort,
                               !.computed = computed,
                               !.calc = IF computed THEN calc ELSE NoCalc,
                               !.value_saved = computed /\ value_ok,
                               !.iv_before = ivw[index_code]]
    /\ UNCHANGED <<today, prices, cons, ivd>>

Next ==
    \/ AdvanceDay
    \/ FetchPrices
    \/ \E force \in BOOLEAN : RunStart(force)
    \/ RebalanceIndex
    \/ LoadIndex

Spec == Init /\ [][Next]_vars

----------------------------------------------------------------------------
(* The value computation as a function of the store: one index whose snapshot
   was selected on the first day, a prior value or none, and the prices of the
   day that follows. *)

ValueCards == 1..3
ValueIndex == "RARE_ALL"

\* index value rows of the first day: none (-1), the base value, another value
PriorValues == {-1, BASE_VALUE, 1234567}

\* the snapshot a rebalance without faults stores for price_date
SnapshotRows(pr, index_code, price_date) ==
    SeqToSet(ConstituentRows(calculate_weights(
        select_constituents(RareCards(pr, price_date), index_code,
                            pr, price_date, {}, {}))))

InitValue ==
    /\ today = Dates[2]
    /\ \E k0 \in [ValueCards -> Kinds], k1 \in [ValueCards -> Kinds] :
          /\ \E c \in ValueCards : k0[c] # 0
          /\ prices = [c \in ValueCards |-> [d \in Days |->
                          IF d = Dates[1] THEN k0[c]
                          ELSE IF d = Dates[2] THEN k1[c] ELSE 0]]
    /\ cons = [x \in IndexSet |-> [m \in Months |->
                  IF x = ValueIndex /\ m = Month(Dates[1])
                  THEN SnapshotRows(prices, x, Dates[1]) ELSE {}]]
    /\ \E v \in PriorValues :
          ivw = [x \in IndexSet |-> [d \in Days |->
                    IF x = ValueIndex /\ d = Dates[1] THEN v ELSE -1]]
    /\ ivd = ivw
    /\ run = Idle
    /\ last = NoLast
    /\ budget = [fetch |-> 0, runs |-> 0, faults |-> 0]

\* calculate_index_laspeyres applied to the store, for the latest price date
ComputeValue ==
    /\ LET current_date == get_latest_price_date(prices, today)
       IN  last' = [NoLast EXCEPT
                       !.op = "value", !.index_code = ValueIndex,
                       !.month = get_current_month(today),
                       !.price_date = current_date, !.computed = TRUE,
                       !.calc = calculate_index_laspeyres(ivw, cons, prices, ValueIndex,
                                                          current_date, today),
                       !.iv_before = ivw[ValueIndex]]
    /\ UNCHANGED <<today, prices, cons, ivw, ivd, run, budget>>

\* calculate_laspeyres_value applied to the store, as the loop of the history
\* script calls it for a date: skipped without constituents or previous value
ComputeHistoryValue ==
    /\ LET calc_date == get_latest_price_date(prices, today)
           constituents == SnapshotOf(cons, ValueIndex, Month(calc_date))
           prev == get_previous_index_value(ivd, ValueIndex, calc_date)
       IN  /\ constituents # {}
           /\ prev.exists
           /\ last' = [NoLast EXCEPT
                          !.op = "history", !.index_code = ValueIndex,
                          !.month = Month(calc_date),
                          !.price_date = calc_date, !.computed = TRUE,
                          !.calc = calculate_laspeyres_value(prices, constituents,
                                       prev.value, prev.date, calc_date),
                          !.iv_before = ivd[ValueIndex]]
    /\ UNCHANGED <<today, prices, cons, ivw, ivd, run, budget>>

NextValue == ComputeValue \/ ComputeHistoryValue

SpecValue == InitValue /\ [][NextValue]_vars

----------------------------------------------------------------------------
(* The value computation two days after the rebalance: the snapshot was
   selected on the first day, the value of the second day was chain-linked
   from the base value of the first, and the third day is computed. *)

\* index_values_weekly after the runs of the first and the second day
ChainedValues(pr, cn) ==
    LET iv0 == [x \in IndexSet |-> [d \in Days |->
                   IF x = ValueIndex /\ d = Dates[1] THEN BASE_VALUE ELSE -1]]
        v1 == calculate_index_laspeyres(iv0, cn, pr, ValueIndex, Dates[2], Dates[2]).value
    IN  [iv0 EXCEPT ![ValueIndex][Dates[2]] = v1]

InitChain ==
    /\ today = Dates[3]
    /\ \E k0 \in [Cards -> Kinds], k1 \in [Cards -> Kinds], k2 \in [Cards -> Kinds] :
          /\ \E c \in Cards : k0[c] # 0
          /\ \E c \in Cards : k1[c] # 0
          /\ \E c \in Cards : k2[c] # 0
          /\ prices = [c \in Cards |-> [d \in Days |->
                          IF d = Dates[1] THEN k0[c]
                          ELSE IF d = Dates[2] THEN k1[c]
                          ELSE IF d = Dates[3] THEN k2[c] ELSE 0]]
    /\ cons = [x \in IndexSet |-> [m \in Months |->
                  IF x = ValueIndex /\ m = Month(Dates[1])
                  THEN SnapshotRows(prices, x, Dates[1]) ELSE {}]]
    /\ ivw = ChainedValues(prices, cons)
    /\ ivd = ivw
    /\ run = Idle
    /\ last = NoLast
    /\ budget = [fetch |-> 0, runs |-> 0, faults |-> 0]

SpecChain == InitChain /\ [][NextValue]_vars

----------------------------------------------------------------------------
(* The weight calculations as functions of a constituent list *)

MaxList == 3

\* prices in cents and liquidity scores in 1e-4 of the drawn constituents
ListPrices == {0, 100, 200}
ListScores == {0, 500, 5000}

\* a selected constituent as the weight calculation receives it
Constituent(card_id, price, liquidity_score) ==
    [card_id |-> card_id, rarity |-> "Rare", price |-> price,
     listings |-> <<0, 0, 0, 0, 0>>, liquidity_score |-> liquidity_score,
     liquidity_method |-> "combined",
     ranking_score |-> price * liquidity_score, weight |-> <<0, 1>>]

\* no price rows, snapshots or values: the store plays no part
EmptyStore ==
    /\ today = Dates[1]
    /\ prices = [c \in Cards |-> [d \in Days |-> 0]]
    /\ cons = [x \in IndexSet |-> [m \in Months |-> {}]]
    /\ ivw = [x \in IndexSet |-> [d \in Days |-> -1]]
    /\ ivd = ivw
    /\ run = Idle
    /\ budget = [fetch |-> 0, runs |-> 0, faults |-> 0]

InitWeights ==
    /\ EmptyStore
    /\ \E n \in 1..MaxList :
          \E p \in [1..n -> ListPrices], q \in [1..n -> ListScores] :
             last = [NoLast EXCEPT !.op = "input",
                        !.input = [i \in 1..n |-> Constituent(i, p[i], q[i])]]

\* calculate_weights of the daily script
ComputeWeights ==
    /\ last' = [last EXCEPT !.op = "weights", !.output = calculate_weights(last.input)]
    /\ UNCHANGED <<today, prices, cons, ivw, ivd, run, budget>>

\* calculate_weights of the initialization script
ComputeInitializeWeights ==
    /\ last' = [last EXCEPT !.op = "initialize_weights",
                   !.output = initialize_calculate_weights(last.input)]
    /\ UNCHANGED <<today, prices, cons, ivw, ivd, run, budget>>

\* the weights of do_rebalancing of the history script
ComputeHistoryWeights ==
    /\ last' = [last EXCEPT !.op = "history_weights",
                   !.output = history_calculate_weights(last.input)]
    /\ UNCHANGED <<today, prices, cons, ivw, ivd, run, budget>>

NextWeights == ComputeWeights \/ ComputeInitializeWeights \/ ComputeHistoryWeights

SpecWeights == InitWeights /\ [][NextWeights]_vars

----------------------------------------------------------------------------
(* The selections of the three scripts as functions of the candidate list: the
   cards and their price rows of the inception date, in whatever order the
   cards query returned them. *)

\* the codes the loop of initialize_index.main runs over
InitializeIndexCodes == {"RARE_100", "RARE_500", "RARE_5000"}

\* rarity column of the cards table: one value of the allow-list, one outside it
Rarities == {"Rare", "Common"}

\* release_date of a card: none, the cutoff of the inception date, the day after
ReleaseDates ==
    {<<>>, <<INCEPTION_DATE - INDEX_CONFIG_maturity_days("RARE_100")>>,
     <<INCEPTION_DATE - INDEX_CONFIG_maturity_days("RARE_100") + 1>>}

\* a row of get_cards_with_prices of the initialization script; the daily and
\* the history script load the same row without release_date and never read it
CardRow(pr, c, price_date, rarity, release_date) ==
    [card_id |-> c, rarity |-> rarity,
     price |-> RefPrice(Row(pr, c, price_date)),
     listings |-> Row(pr, c, price_date).listings,
     liquidity_score |-> 0, liquidity_method |-> "none",
     ranking_score |-> 0, weight |-> <<0, 1>>,
     release_date |-> release_date]

\* the orders in which a query without ORDER BY can return the cards
Orders(S) ==
    {q \in [1..Cardinality(S) -> S] : \A i, j \in DOMAIN q : i # j => q[i] # q[j]}

InitSelect ==
    /\ today = INCEPTION_DATE
    /\ \E k \in [Cards -> SelectKinds], deep \in BOOLEAN :
          prices = [c \in Cards |-> [d \in Days |->
                       IF d = INCEPTION_DATE \/ (deep /\ d \in {Dates[2], Dates[3]})
                       THEN k[c] ELSE 0]]
    /\ cons = [x \in IndexSet |-> [m \in Months |-> {}]]
    /\ ivw = [x \in IndexSet |-> [d \in Days |-> -1]]
    /\ ivd = ivw
    /\ run = Idle
    /\ budget = [fetch |-> 0, runs |-> 0, faults |-> 0]
    /\ \E r \in [Cards -> Rarities], rel \in [Cards -> ReleaseDates], q \in Orders(Cards) :
          last = [NoLast EXCEPT !.op = "input", !.price_date = INCEPTION_DATE,
                     !.input = [i \in 1..Len(q) |->
                         CardRow(prices, q[i], INCEPTION_DATE, r[q[i]], rel[q[i]])]]

\* the constituents each script selects from the loaded cards
SelectionOf(op, all_cards, index_code, pr, price_date) ==
    CASE op = "daily" ->
           select_constituents(filter_outliers(filter_rare_cards(all_cards)),
                               index_code, pr, price_date, {}, {})
      [] op = "history" ->
           do_rebalancing_select(all_cards, index_code, pr, price_date)
      [] op = "initialize" ->
           initialize_select_constituents(
               filter_immature_cards(filter_outliers(filter_rare_cards(all_cards)),
                                     index_code, price_date),
               index_code, pr, price_date)

\* filter_immature_cards of the initialization script on the loaded cards
FilterImmature ==
    /\ last.op = "input"
    /\ \E index_code \in InitializeIndexCodes :
          last' = [last EXCEPT !.op = "mature", !.index_code = index_code,
                      !.output = filter_immature_cards(last.input, index_code,
                                                       last.price_date)]
    /\ UNCHANGED <<today, prices, cons, ivw, ivd, run, budget>>

\* calculate_index.main up to select_constituents
SelectDaily ==
    /\ last.op = "input"
    /\ \E index_code \in IndexSet :
          last' = [last EXCEPT !.op = "daily", !.index_code = index_code,
                      !.output = SelectionOf("daily", last.input, index_code,
                                             prices, last.price_date)]
    /\ UNCHANGED <<today, prices, cons, ivw, ivd, run, budget>>

\* calculate_index_history.do_rebalancing up to the selection
SelectHistory ==
    /\ last.op = "input"
    /\ \E index_code \in IndexSet :
          last' = [last EXCEPT !.op = "history", !.index_code = index_code,
                      !.output = SelectionOf("history", last.input, index_code,
                                             prices, last.price_date)]
    /\ UNCHANGED <<today, prices, cons, ivw, ivd, run, budget>>

\* initialize_index.main up to select_constituents
SelectInitialize ==
    /\ last.op = "input"
    /\ \E index_code \in InitializeIndexCodes :
          last' = [last EXCEPT !.op = "initialize", !.index_code = index_code,
                      !.output = SelectionOf("initialize", last.input, index_code,
                                             prices, last.price_date)]
    /\ UNCHANGED <<today, prices, cons, ivw, ivd, run, budget>>

NextSelect == FilterImmature \/ SelectDaily \/ SelectHistory \/ SelectInitialize

SpecSelect == InitSelect /\ [][NextSelect]_vars

----------------------------------------------------------------------------
(* The liquidity scorers as functions of the rows of the window and the
   listings of the card *)

\* the most rows a drawn window holds
MaxWindow == 4

\* sales of a day per condition: none, one damaged copy, two and ten near-mint
\* copies (ten is the cap), a thousand of every condition
VolumeRows ==
    {<<0, 0, 0, 0, 0>>, <<0, 0, 0, 0, 1>>, <<2, 0, 0, 0, 0>>, <<10, 0, 0, 0, 0>>,
     <<1000, 1000, 1000, 1000, 1000>>}

\* listings per condition: none, one damaged copy, half the cap, the cap, a
\* thousand of every condition
ListingRows ==
    {<<0, 0, 0, 0, 0>>, <<0, 0, 0, 0, 1>>, <<25, 0, 0, 0, 0>>, <<50, 0, 0, 0, 0>>,
     <<1000, 1000, 1000, 1000, 1000>>}

\* last.input = <<rows of the window, listings>>
InitLiquidity ==
    /\ EmptyStore
    /\ \E n \in 0..MaxWindow :
          \E data \in [1..n -> VolumeRows], listings \in ListingRows :
             last = [NoLast EXCEPT !.op = "input", !.input = <<data, listings>>]

\* calculate_liquidity_smart on the rows; read_faults = the query raised
ComputeLiquidity ==
    /\ last.op = "input"
    /\ \E failed \in BOOLEAN :
          last' = [last EXCEPT !.op = "liquidity", !.read_faults = failed,
                      !.output = combined_liquidity_score(last.input[1], last.input[2],
                                                          failed)]
    /\ UNCHANGED <<today, prices, cons, ivw, ivd, run, budget>>

\* batch_get_volume_stats and calculate_liquidity_batch on the rows
ComputeBatchLiquidity ==
    /\ last.op = "input"
    /\ last' = [last EXCEPT !.op = "batch_liquidity",
                    !.output = liquidity_batch_score(last.input[2],
                                   volume_stats_of(last.input[1],
                                       WEEKLY_MIN_DAYS_WITH_VOLUME, WEEKLY_DATA_POINTS))]
    /\ UNCHANGED <<today, prices, cons, ivw, ivd, run, budget>>

NextLiquidity == ComputeLiquidity \/ ComputeBatchLiquidity

SpecLiquidity == InitLiquidity /\ [][NextLiquidity]_vars

----------------------------------------------------------------------------
(* The daily run on the first day of the second month, after the first month
   was rebalanced and valued on its first day.  The cards of the day are
   traded (kind 1) or listed without any sale in the week (kind 3); a run
   earlier in the day, before the prices of the day arrived, may have stored
   the snapshot of the month already. *)

ThinKinds == {0, 1, 3}

InitThin ==
    /\ today = Dates[4]
    /\ \E k \in [Cards -> ThinKinds] :
          /\ \E c \in Cards : k[c] # 0
          /\ prices = [c \in Cards |-> [d \in Days |->
                          IF d = Dates[1] THEN 1
                          ELSE IF d = Dates[4] THEN k[c] ELSE 0]]
    /\ \E stored \in BOOLEAN :
          cons = [x \in IndexSet |-> [m \in Months |->
                     IF m = Month(Dates[1]) \/ (stored /\ m = Month(Dates[4]))
                     THEN SnapshotRows(prices, x, Dates[1]) ELSE {}]]
    /\ ivw = [x \in IndexSet |-> [d \in Days |->
                  IF d = Dates[1] THEN BASE_VALUE ELSE -1]]
    /\ ivd = [x \in IndexSet |-> [d \in Days |-> -1]]
    /\ run = Idle
    /\ last = NoLast
    /\ budget = [fetch |-> MaxFetch, runs |-> MaxRuns, faults |-> MaxFaults]

SpecThin == InitThin /\ [][Next]_vars

----------------------------------------------------------------------------
(* Properties of the daily run (Spec) *)

\* abs(weight_sum - 1.0) > 0.001 of the health check, in 1e-8
WEIGHT_TOLERANCE == 100000

Abs(x) == IF x < 0 THEN -x ELSE x

RECURSIVE SumWeights(_)
SumWeights(rows) ==
    IF rows = {} THEN 0
    ELSE LET r == CHOOSE x \in rows : TRUE IN r.weight + SumWeights(rows \ {r})

\* the snapshot now stored for the pair the last iteration worked on
StoredNow == cons[last.index_code][last.month]

\* C1: in a run without the rebalance flag, an index is rebalanced if and only
\* if it has no snapshot for the month, whatever the other indexes have.
C1_RebalanceIffNoSnapshot ==
    (last.op = "index" /\ ~last.force) =>
        (last.rebalanced <=> ~last.had_snapshot)

\* C2: when rows of the new snapshot fail to be written, the snapshot stored
\* before is left exactly as it was.
C2_FailedWriteKeepsPrior ==
    (last.op = "index" /\ last.rebalanced /\ last.had_snapshot /\ last.failed > 0) =>
        StoredNow = last.before

\* C3: after a rebalance attempt the stored snapshot is the complete prior one
\* or the complete new one.
C3_PriorOrNewSnapshot ==
    (last.op = "index" /\ last.rebalanced) =>
        (StoredNow = last.before \/ StoredNow = last.target)

C5_WeightsSumToOne ==
    \A x \in IndexSet, m \in Months :
        cons[x][m] # {} =>
            Abs(SumWeights(cons[x][m]) - WEIGHT_SCALE) <= WEIGHT_TOLERANCE

\* C6: the ranks of every stored snapshot are exactly 1..N, N the number of rows.
C6_RanksDense ==
    \A x \in IndexSet, m \in Months :
        {r.rank : r \in cons[x][m]} = 1..Cardinality(cons[x][m])

\* C8: when the latest stored value of the index has the date being computed,
\* the computation returns that value with method same_date, and the stored
\* values of that date and of every earlier date stay as they were.
C8_SameDateNoOp ==
    (last.op = "index" /\ last.computed
        /\ last.iv_before[last.price_date] # -1
        /\ \A d \in Days : last.iv_before[d] # -1 => d <= last.price_date) =>
        /\ last.calc.method = "same_date"
        /\ last.calc.value = last.iv_before[last.price_date]
        /\ \A d \in Days : d <= last.price_date =>
               ivw[last.index_code][d] = last.iv_before[d]

----------------------------------------------------------------------------
(* Properties of the value computation (SpecValue) *)

\* the snapshot, its rows matched on the computed date, and prior * ratio
ValueRows == cons[ValueIndex][Month(Dates[1])]
ValueMatched ==
    {r \in ValueRows : /\ HasRow(prices, r.item_id, last.price_date)
                       /\ RefPrice(Row(prices, r.item_id, last.price_date)) > 0
                       /\ r.composite_price > 0}
ValueRatioApplied ==
    LET cur == [id \in ItemIds(ValueMatched) |->
                   RefPrice(Row(prices, id, last.price_date))]
        prev == [id \in ItemIds(ValueMatched) |->
                   (CHOOSE r \in ValueMatched : r.item_id = id).composite_price]
        sums == LaspeyresSums(ValueMatched, cur, prev)
    IN  RoundMulDiv(ivw[ValueIndex][Dates[1]], sums.numerator, sums.denominator)
PriorOnEarlierDate ==
    /\ last.op \in {"value", "history"}
    /\ ivw[ValueIndex][Dates[1]] # -1
    /\ last.price_date # Dates[1]

\* C7: with no index value row stored for the index, the computation returns
\* exactly 100.0 with method base.
C7_BaseWithoutPrior ==
    (last.op = "value" /\ ~HasValue(ivw, ValueIndex)) =>
        (last.calc.value = 1000000 /\ last.calc.method = "base")

C7_Witness ==
    /\ last.op = "value" /\ ~HasValue(ivw, ValueIndex)
    /\ ValueRows # {}
    /\ last.calc.value = 1000000 /\ last.calc.method = "base"

C10_PartialStillChained ==
    (PriorOnEarlierDate /\ Cardinality(ValueMatched) > 0
        /\ 2 * Cardinality(ValueMatched) < Cardinality(ValueRows)) =>
        (last.calc.method = "laspeyres_partial" /\ last.calc.value = ValueRatioApplied)

\* C11: with a prior value of another date and a stored snapshot none of whose
\* constituents has a current price and a positive prior price, the daily
\* computation returns the prior value unchanged with method fallback.
C11_FallbackWithoutMatch ==
    (PriorOnEarlierDate /\ last.op = "value"
        /\ ValueRows # {} /\ ValueMatched = {}) =>
        (last.calc.method = "fallback"
            /\ last.calc.value = ivw[ValueIndex][Dates[1]])

C11_Witness ==
    /\ PriorOnEarlierDate /\ last.op = "value"
    /\ ValueRows # {} /\ ValueMatched = {}
    /\ ivw[ValueIndex][Dates[1]] # BASE_VALUE
    /\ last.calc.method = "fallback"
    /\ last.calc.value = ivw[ValueIndex][Dates[1]]

\* C25: a prior constituent enters the numerator and the denominator exactly
\* when it has a price on the computed date and a positive prior price; the
\* others enter neither sum, are not priced at zero, and the computation
\* still returns a value.
C25_MatchedOnly ==
    (PriorOnEarlierDate /\ last.op = "value" /\ ValueRows # {}) =>
        LET cur == [id \in ItemIds(ValueMatched) |->
                       RefPrice(Row(prices, id, last.price_date))]
            prev == [id \in ItemIds(ValueMatched) |->
                       (CHOOSE r \in ValueMatched : r.item_id = id).composite_price]
            sums == LaspeyresSums(ValueMatched, cur, prev)
        IN  /\ last.calc.info.matched = Cardinality(ValueMatched)
            /\ last.calc.info.numerator = sums.numerator
            /\ last.calc.info.denominator = sums.denominator
            /\ last.calc.method \in {"laspeyres", "laspeyres_partial", "fallback"}
            /\ last.calc.value > 0
            /\ ValueMatched # {} => last.calc.value = ValueRatioApplied

\* a constituent without a price on the computed date next to a matched one
C25_Witness ==
    /\ PriorOnEarlierDate /\ last.op = "value"
    /\ \E r \in ValueRows : ~HasRow(prices, r.item_id, last.price_date)
    /\ ValueMatched # {}
    /\ last.calc.info.matched = Cardinality(ValueMatched)
    /\ last.calc.value = ValueRatioApplied
    /\ last.calc.value # ivw[ValueIndex][Dates[1]]

----------------------------------------------------------------------------
(* Properties of the value computation after the rebalance day (SpecChain) *)

\* the factors k = kn/kd that the price rows can realise
ScaleFactors == {<<1, 1>>, <<2, 1>>, <<1, 2>>}

\* every constituent has a price on the prior value's date and on the computed
\* date, and the latter is k times the former
ScaledBy(k) ==
    \A r \in ValueRows :
        /\ HasRow(prices, r.item_id, Dates[2])
        /\ HasRow(prices, r.item_id, Dates[3])
        /\ RefPrice(Row(prices, r.item_id, Dates[3])) * k[2]
             = RefPrice(Row(prices, r.item_id, Dates[2])) * k[1]

\* C12: when every constituent's price on the computed date is k times its
\* price on the date of the prior value, the new value is k times the prior
\* value (unchanged for k = 1), on any day of the month.
C12_ScaleInvariance ==
    \A k \in ScaleFactors :
        (last.op \in {"value", "history"} /\ last.price_date = Dates[3] /\ ScaledBy(k)) =>
            last.calc.value = RoundMulDiv(ivw[ValueIndex][Dates[2]], k[1], k[2])

----------------------------------------------------------------------------
(* Properties of the weight calculations (SpecWeights) *)

WeightsComputed == last.op \in {"weights", "initialize_weights"}
PositivePrices == \A i \in 1..Len(last.input) : last.input[i].price > 0

\* C13: for a non-empty list with positive prices the weights sum to 1.0 and
\* each weight lies in (0, 1].  The weights are exact fractions over a common
\* denominator, so the sum is 1 when the numerators sum to the denominator.
C13_WeightsNormalised ==
    (WeightsComputed /\ Len(last.input) > 0 /\ PositivePrices) =>
        LET w == [i \in 1..Len(last.output) |-> last.output[i].weight]
        IN  /\ Len(w) = Len(last.input)
            /\ \A i \in 1..Len(w) : w[i][2] = w[1][2] /\ 0 < w[i][1] /\ w[i][1] <= w[i][2]
            /\ SumSeq([i \in 1..Len(w) |-> w[i][1]]) = w[1][2]

C13_Witness ==
    /\ last.op = "initialize_weights" /\ Len(last.input) = MaxList /\ PositivePrices
    /\ last.input[1].liquidity_score = 0
    /\ last.input[2].liquidity_score # last.input[3].liquidity_score
    /\ SumSeq([i \in 1..MaxList |-> last.output[i].weight[1]]) = last.output[1].weight[2]

\* a fraction <<n, d>> in lowest terms
Reduced(f) == LET g == GCD(f[1], f[2]) IN <<f[1] \div g, f[2] \div g>>

\* reference_price * max(liquidity_score, 0.1)
AdjustedValue(c) ==
    c.price * (IF c.liquidity_score < LIQUIDITY_FLOOR THEN LIQUIDITY_FLOOR
               ELSE c.liquidity_score)

\* C14: the weight of a constituent is price * max(liquidity_score, 0.1) over
\* the sum of that quantity, the floor applying to every score below 0.1.
C14_LiquidityAdjustedWeights ==
    LET total == SumSeq([i \in 1..Len(last.input) |-> AdjustedValue(last.input[i])])
    IN  (WeightsComputed /\ total > 0) =>
            \A i \in 1..Len(last.input) :
                Reduced(last.output[i].weight)
                    = Reduced(<<AdjustedValue(last.input[i]), total>>)

EqualWeightOnZeroTotalDaily ==
    LET n == Len(last.input)
        total == SumSeq([i \in 1..n |-> AdjustedValue(last.input[i])])
    IN  (WeightsComputed /\ n > 0 /\ total = 0) =>
            \A i \in 1..n : Reduced(last.output[i].weight) = <<1, n>>

----------------------------------------------------------------------------
(* Properties of the selections (SpecSelect) *)

SelectOps == {"daily", "history", "initialize"}

Reverse(s) == [i \in 1..Len(s) |-> s[Len(s) + 1 - i]]

\* ranking_score descending, equal scores by card_id ascending
RankedWithTieBreak(s) ==
    \A i, j \in 1..Len(s) :
        i < j => \/ s[i].ranking_score > s[j].ranking_score
                 \/ /\ s[i].ranking_score = s[j].ranking_score
                    /\ s[i].card_id < s[j].card_id

\* C15: the selection is ordered by ranking_score descending with ties by
\* item id ascending, holds at most basket_size items, and is the same for the
\* candidates given in the opposite order
C15_SelectionOrder ==
    last.op \in SelectOps =>
        /\ RankedWithTieBreak(last.output)
        /\ INDEX_CONFIG_size(last.index_code) # 0
              => Len(last.output) <= INDEX_CONFIG_size(last.index_code)
        /\ last.output = SelectionOf(last.op, Reverse(last.input), last.index_code,
                                      prices, last.price_date)

\* cutoff_date of the maturity filter for the index of the last operation
CutoffDate == last.price_date - INDEX_CONFIG_maturity_days(last.index_code)

\* C16: filter_immature_cards keeps a card released exactly maturity_days
\* before the reference date and drops a card released one day later
C16_MaturityBoundary ==
    last.op = "mature" =>
        \A i \in 1..Len(last.input) :
            /\ last.input[i].release_date = <<CutoffDate>>
                  => last.input[i] \in SeqToSet(last.output)
            /\ last.input[i].release_date = <<CutoffDate + 1>>
                  => last.input[i] \notin SeqToSet(last.output)

C16_Witness ==
    /\ last.op = "mature"
    /\ \E i, j \in 1..Len(last.input) :
          /\ last.input[i].release_date = <<CutoffDate>>
          /\ last.input[i] \in SeqToSet(last.output)
          /\ last.input[j].release_date = <<CutoffDate + 1>>
          /\ last.input[j] \notin SeqToSet(last.output)

\* the eligibility filters at the rebalance date: rarity allow-list, price
\* bounds, release date not after the cutoff (a card without one passes)
PassedAllFilters(card) ==
    /\ card.rarity \in RARE_RARITIES
    /\ MIN_PRICE <= card.price /\ card.price <= MAX_PRICE
    /\ \/ card.release_date = <<>>
       \/ card.release_date[1] <= CutoffDate

\* C17: every constituent a rebalance of the daily, the history or the
\* initialization script selects for persisting passed the rarity, the price
\* and the maturity filter
C17_ConstituentsPassedFilters ==
    last.op \in SelectOps =>
        \A i \in 1..Len(last.output) : PassedAllFilters(last.output[i])

\* the same, for the initialization script alone
InitializeConstituentsPassedFilters ==
    last.op = "initialize" =>
        \A i \in 1..Len(last.output) : PassedAllFilters(last.output[i])

\* the rarity and the price filter alone, for every script
ConstituentsRareAndPriced ==
    last.op \in SelectOps =>
        \A i \in 1..Len(last.output) :
            /\ last.output[i].rarity \in RARE_RARITIES
            /\ MIN_PRICE <= last.output[i].price /\ last.output[i].price <= MAX_PRICE

\* the cards the liquidity filter of a script receives
FilterCandidates(op, all_cards, index_code, price_date) ==
    IF op = "initialize"
    THEN filter_immature_cards(filter_outliers(filter_rare_cards(all_cards)),
                               index_code, price_date)
    ELSE filter_outliers(filter_rare_cards(all_cards))

\* no row of the card up to price_date records a sale
NoTradingEvidence(pr, card_id, price_date) ==
    \A d \in Days : (d <= price_date /\ pr[card_id][d] # 0)
                        => Weighted(Row(pr, card_id, d).volumes) = 0

\* the liquidity method the scorer of the script assigns to the card
ScoredMethod(op, pr, card, price_date) ==
    IF op = "initialize"
    THEN liquidity_batch_score(card.listings,
             batch_get_volume_stats(pr, {card.card_id}, WEEKLY_DATA_START, price_date,
                 WEEKLY_MIN_DAYS_WITH_VOLUME, WEEKLY_DATA_POINTS)[card.card_id])[2]
    ELSE calculate_liquidity_smart(pr, card.card_id, price_date, card.listings, FALSE)[2]

\* C18: no index of INDEX_CONFIG has an explicit liquidity threshold, so the
\* liquidity filter drops exactly the cards that have no trading evidence and
\* the method listings_only, and keeps every other card
C18_LiquidityFilter ==
    last.op \in SelectOps =>
        LET candidates == FilterCandidates(last.op, last.input, last.index_code,
                                           last.price_date)
            dropped(card) ==
                /\ NoTradingEvidence(prices, card.card_id, last.price_date)
                /\ ScoredMethod(last.op, prices, card, last.price_date) = "listings_only"
        IN  {last.output[i].card_id : i \in 1..Len(last.output)}
              = {candidates[i].card_id : i \in {j \in 1..Len(candidates) :
                                                   ~dropped(candidates[j])}}

\* default of min_days in get_volume_stats_30d
MIN_DAYS_WITH_VOLUME == 10

\* the volume statistics the script has for the card at the rebalance, and its
\* minimum number of days with volume
MethodDStats(op, pr, card_id, price_date) ==
    IF op = "initialize"
    THEN batch_get_volume_stats(pr, {card_id}, WEEKLY_DATA_START, price_date,
             WEEKLY_MIN_DAYS_WITH_VOLUME, WEEKLY_DATA_POINTS)[card_id]
    ELSE batch_get_volume_stats(pr, {card_id}, price_date - VOLUME_LOOKBACK_DAYS,
             price_date, MIN_DAYS_WITH_VOLUME, VOLUME_LOOKBACK_DAYS)[card_id]
MethodDMinDays(op) ==
    IF op = "initialize" THEN WEEKLY_MIN_DAYS_WITH_VOLUME ELSE MIN_DAYS_WITH_VOLUME

\* total_volume / avg_divisor >= 0.5 and days_with_volume >= min_days
MethodDEligible(op, stats) ==
    /\ stats.total_volume * VOLUME_LOOKBACK_DAYS >= MIN_AVG_VOLUME_30D * stats.avg_divisor
    /\ stats.days_with_volume >= MethodDMinDays(op)

\* the card passes the filter the script applies before Method D
PassesEntryThreshold(op, pr, card, price_date) ==
    op = "daily" =>
        calculate_liquidity_smart(pr, card.card_id, price_date, card.listings, FALSE)[1]
            >= LIQUIDITY_THRESHOLD_ENTRY

\* candidates with volume data that are selected, and those that meet Method D
MethodDSelected(op) ==
    LET candidates == FilterCandidates(op, last.input, last.index_code, last.price_date)
    IN  {candidates[j].card_id : j \in {i \in 1..Len(candidates) :
            /\ MethodDStats(op, prices, candidates[i].card_id,
                            last.price_date).days_with_volume > 0
            /\ \E k \in 1..Len(last.output) :
                   last.output[k].card_id = candidates[i].card_id}}
MethodDPassing(op) ==
    LET candidates == FilterCandidates(op, last.input, last.index_code, last.price_date)
    IN  {candidates[j].card_id : j \in {i \in 1..Len(candidates) :
            LET stats == MethodDStats(op, prices, candidates[i].card_id, last.price_date)
            IN  /\ stats.days_with_volume > 0
                /\ PassesEntryThreshold(op, prices, candidates[i], last.price_date)
                /\ MethodDEligible(op, stats)}}

\* C28: at a rebalance an item that has volume data is eligible if and only
\* if its average daily weighted volume is >= MIN_AVG_VOLUME_30D and its days
\* with volume are >= the minimum-days threshold.
C28_MethodDEligibility ==
    last.op \in {"daily", "initialize"} =>
        MethodDSelected(last.op) = MethodDPassing(last.op)

\* the initialization script applies both thresholds
MethodDEligibilityInitialize ==
    last.op = "initialize" => MethodDSelected(last.op) = MethodDPassing(last.op)

----------------------------------------------------------------------------
(* Properties of the liquidity scorers (SpecLiquidity) *)

\* the inputs of the last scoring: rows, total and days of weighted volume (in
\* tenths of a sale), weighted listings (in tenths of a listing)
WindowDays == Len(last.input[1])
WindowVolume == SumSeq([i \in 1..WindowDays |-> Weighted(last.input[1][i])])
WindowDaysWithVolume ==
    Cardinality({i \in 1..WindowDays : Weighted(last.input[1][i]) > 0})
WindowListings == Weighted(last.input[2])

\* 0.50 x min(avg volume / VOLUME_CAP, 1) + 0.30 x min(listings / LIQUIDITY_CAP, 1)
\*   + 0.20 x days with volume / days, in 1e-4, as the fraction <<num, den>>;
\* the listings component is a whole number of 1e-4
ClaimedScore ==
    <<W_VOL * Min(WindowVolume, 10 * VOLUME_CAP * WindowDays)
        + ((W_LIST * Min(WindowListings, 10 * LIQUIDITY_CAP)) \div (10 * LIQUIDITY_CAP))
            * (10 * VOLUME_CAP * WindowDays)
        + W_CONS * WindowDaysWithVolume * (10 * VOLUME_CAP),
      10 * VOLUME_CAP * WindowDays>>

\* C19: with rows in the window the score is the 50/30/20 formula rounded to
\* 1e-4; listings alone at their cap give 0.30, volume alone at its cap 0.50,
\* consistency alone 0.20; without rows the volume and the consistency
\* component are 0 and the score is the listings component
C19_CombinedFormula ==
    last.op = "liquidity" =>
        LET score == last.output[1] IN
        /\ last.output[2] = "combined"
              => /\ 2 * Abs(score * ClaimedScore[2] - ClaimedScore[1]) <= ClaimedScore[2]
                 /\ (WindowVolume = 0 /\ WindowListings >= 10 * LIQUIDITY_CAP)
                       => score = W_LIST
                 /\ (WindowVolume >= 10 * VOLUME_CAP * WindowDays
                        /\ WindowListings = 0 /\ WindowDaysWithVolume = 0)
                       => score = W_VOL
                 /\ (WindowVolume = 0 /\ WindowListings = 0
                        /\ WindowDaysWithVolume = WindowDays)
                       => score = W_CONS
        /\ last.output[2] = "combined" <=> (WindowDays >= 1 /\ ~last.read_faults)
        /\ WindowDays = 0
              => score * (10 * LIQUIDITY_CAP)
                   = W_LIST * Min(WindowListings, 10 * LIQUIDITY_CAP)

\* a window whose three components are all strictly between 0 and their maximum
C19_Witness ==
    /\ last.op = "liquidity"
    /\ last.output[2] = "combined"
    /\ 0 < WindowVolume /\ WindowVolume < 10 * VOLUME_CAP * WindowDays
    /\ 0 < WindowListings /\ WindowListings < 10 * LIQUIDITY_CAP
    /\ 0 < WindowDaysWithVolume /\ WindowDaysWithVolume < WindowDays
    /\ 0 < last.output[1] /\ last.output[1] < W_VOL + W_LIST + W_CONS

\* C20: the score of calculate_liquidity_smart and of calculate_liquidity_batch
\* lies in [0, 1] for all listings, volumes and window lengths
C20_ScoreInUnitInterval ==
    last.op \in {"liquidity", "batch_liquidity"} =>
        0 <= last.output[1] /\ last.output[1] <= 10000

\* listings far above the cap, with and without sales far above the cap
C20_Witness ==
    /\ last.op \in {"liquidity", "batch_liquidity"}
    /\ WindowListings > 10 * LIQUIDITY_CAP
    /\ WindowDays = 0 \/ WindowVolume > 10 * VOLUME_CAP * WindowDays
    /\ last.output[1] \in {W_LIST, 10000}

\* C21: a window without a day of sales gives method listings_only and the
\* score 0.30 x listings score; combined is returned only when some day of the
\* window has sales
C21_ListingsOnlyFallback ==
    last.op \in {"liquidity", "batch_liquidity"} =>
        /\ WindowDaysWithVolume = 0
              => /\ last.output[2] = "listings_only"
                 /\ last.output[1] * (10 * LIQUIDITY_CAP)
                      = W_LIST * Min(WindowListings, 10 * LIQUIDITY_CAP)
        /\ last.output[2] = "combined" => WindowDaysWithVolume >= 1

\* the score part of the fallback, for calculate_liquidity_smart alone
SmartFallbackScore ==
    (last.op = "liquidity" /\ WindowDaysWithVolume = 0)
        => last.output[1] * (10 * LIQUIDITY_CAP)
             = W_LIST * Min(WindowListings, 10 * LIQUIDITY_CAP)

\* the method part of the fallback, for calculate_liquidity_batch alone
BatchFallbackMethod ==
    last.op = "batch_liquidity"
        => (last.output[2] = "combined" <=> WindowDaysWithVolume >= 1)

----------------------------------------------------------------------------
(* Further properties of the daily run (Spec) *)

\* the position of a code in the loop of main
IndexPosition(index_code) == CHOOSE i \in 1..Len(IndexCodes) : IndexCodes[i] = index_code

\* the last iteration met a failure: a query raised, rows of the snapshot were
\* not written, or the value was not written
IterationFailed ==
    \/ last.aborted
    \/ last.failed > 0
    \/ last.read_faults
    \/ last.computed /\ ~last.value_saved

\* C22: after a failure in the iteration of one index the run goes on with the
\* next index code
C22_FailureIsolation ==
    (last.op = "index" /\ IterationFailed
       /\ IndexPosition(last.index_code) < Len(IndexCodes))
        => /\ run.pc = "loop"
           /\ run.i = IndexPosition(last.index_code) + 1

\* the same for the failures that do not raise: rows or value not written
FailedPersistenceIsolated ==
    (last.op = "index" /\ IterationFailed /\ ~last.aborted
       /\ IndexPosition(last.index_code) < Len(IndexCodes))
        => /\ run.pc = "loop"
           /\ run.i = IndexPosition(last.index_code) + 1

\* the selection the rebalancing iteration of the run is about to make
PendingSelection ==
    select_constituents(RareCards(prices, run.price_date), IndexCodes[run.i],
                        prices, run.price_date, {}, {})

\* C23: a rebalancing iteration whose selection is empty writes and deletes no
\* constituent row of any index and month, and the run goes on with the next
\* index code
C23_EmptySelectionAborts ==
    [][(run.pc = "loop" /\ run.need_rebalance /\ PendingSelection = <<>>)
          => /\ cons' = cons
             /\ run' = IF run.i = Len(IndexCodes) THEN Idle
                        ELSE [run EXCEPT !.i = run.i + 1]]_vars

\* an empty selection for an index that has a stored snapshot of the month,
\* with the loop at the next index code
C23_Witness ==
    /\ last.op = "index" /\ last.rebalanced
    /\ last.target = {}
    /\ last.before # {}
    /\ cons[last.index_code][last.month] = last.before
    /\ run.pc = "loop" /\ run.i = IndexPosition(last.index_code) + 1

\* C24: a step of a daily run never changes a snapshot that is stored for an
\* index code and a month: items, ranks, weights and prices stay as persisted
C24_SnapshotImmutable ==
    [][\A x \in IndexSet, m \in Months :
          cons[x][m] # {} => cons'[x][m] = cons[x][m]]_vars

\* the same for the runs started without the --rebalance flag
SnapshotImmutableUnforced ==
    [][~run.force =>
          \A x \in IndexSet, m \in Months :
              cons[x][m] # {} => cons'[x][m] = cons[x][m]]_vars


\* the snapshot of the index that was in force on the date of the prior value:
\* the one of that date's month as it stood before the run
InForceOnPriorDate ==
    LET prior_date == last.calc.info.prev_date
    IN  IF Month(prior_date) = last.month THEN last.before
        ELSE cons[last.index_code][Month(prior_date)]
ChainsFromPrior ==
    /\ last.op = "index" /\ last.computed
    /\ last.calc.info.prev_exists
    /\ last.calc.info.prev_date < last.price_date
    /\ InForceOnPriorDate # {}

\* C26: on every computed day, the day of a rebalance included, the basket and
\* weights of the ratio from the prior date to the computed date are those of
\* the snapshot in force on the prior date, not of the snapshot the run wrote.
C26_PriorSnapshotUsed ==
    ChainsFromPrior => last.calc.info.prev_constituents = InForceOnPriorDate

\* on days without a rebalance in the month of the prior value the stored
\* snapshot is the one in force on the prior date
PriorSnapshotUsedWithoutRebalance ==
    (ChainsFromPrior /\ ~last.rebalanced /\ Month(last.calc.info.prev_date) = last.month) =>
        last.calc.info.prev_constituents = InForceOnPriorDate


\* the most recent value stored for the index before the iteration
HadValue == \E d \in Days : last.iv_before[d] # -1
LatestBefore ==
    last.iv_before[CHOOSE d \in Days :
                      /\ last.iv_before[d] # -1
                      /\ \A e \in Days : last.iv_before[e] # -1 => e <= d]

\* C29: once a value row exists for an index, no later run returns method
\* base for it: every later value is chain-linked from, held at, or equal to
\* the most recent stored value, whatever the constituent snapshots hold.
C29_NoRebase ==
    (last.op = "index" /\ last.computed /\ HadValue) =>
        /\ last.calc.method # "base"
        /\ last.calc.info.prev_value = LatestBefore

\* with constituents read, a stored value is never replaced by the base value
NoRebaseWithConstituents ==
    (last.op = "index" /\ last.computed /\ HadValue
        /\ last.calc.info.prev_constituents # {}) =>
        /\ last.calc.method # "base"
        /\ last.calc.info.prev_value = LatestBefore


\* C30: in every run the month key under which the snapshot is checked, saved
\* and loaded is the calendar month of the price date whose value is computed
\* and stored, also when the run executes in a later month.
C30_MonthOfPriceDate ==
    last.op = "index" => last.month = Month(last.price_date)

====
